---------------------------- MODULE Spec2Model ----------------------------
(***************************************************************************)
(* Retrieval pipeline of the Nyra chatbot backend (backend/pdf_loader.py   *)
(* and backend/main.py): chunker, embedding cache, cosine-similarity       *)
(* retriever, ingestion orchestrator and the chat request handler.         *)
(*                                                                         *)
(* Four specifications share the variables below:                          *)
(*   SpecSplit    split_text applied to bounded inputs                     *)
(*   SpecCache    save_embeddings / load_embeddings on one cache path      *)
(*   SpecRetrieve cosine_similarity / get_relevant_chunks on bounded input *)
(*   Spec         the process: startup ingestion, chat requests, restarts  *)
(***************************************************************************)
EXTENDS Integers, Sequences, FiniteSets, TLC

VARIABLES
    \* ---- split_text probe
    text, chunk_size, chunk_overlap, splitOut,
    \* ---- the cache file at embeddings_path, and the save/load probe
    cacheFile, saveArgs, loadOut,
    \* ---- cosine_similarity / get_relevant_chunks probe
    rq, simOut, retrOut,
    \* ---- the process (main.py) and its one ingestion call
    pdf, pc, ing, chunks, embeddings, reqs, run, calls, lastCall, firstBuild

splitVars == <<text, chunk_size, chunk_overlap, splitOut>>
cacheVars == <<saveArgs, loadOut>>
retrVars  == <<rq, simOut, retrOut>>
procVars  == <<pdf, pc, ing, chunks, embeddings, reqs, run, calls, lastCall, firstBuild>>
vars == <<splitVars, cacheFile, cacheVars, retrVars, procVars>>

(***************************************************************************)
(* Bounds of the model.                                                    *)
(***************************************************************************)
MaxTextLen   == 5      \* longest probe text given to split_text
MaxChunkSize == 3      \* largest probe chunk_size
MaxCacheLen  == 2      \* longest list given to save_embeddings / array in a cache file
MaxCorpus    == 3      \* largest corpus given to get_relevant_chunks
MaxTopK      == 2      \* largest probe top_k
MaxDocChunks == 2      \* the longest document of Spec splits into this many chunks
MaxRuns      == 3      \* process starts (load_or_build calls) in one behaviour

(***************************************************************************)
(* Program constants.                                                      *)
(***************************************************************************)
DefaultChunkSize    == 1000
DefaultChunkOverlap == 200
ChatTopK            == 3

Min(a, b) == IF a < b THEN a ELSE b
Abs(a)    == IF a < 0 THEN -a ELSE a
\* ceil(a / b) for b > 0 and any integer a
CeilDiv(a, b) == -((-a) \div b)

Alphabet == {"A", "B"}
SeqsUpTo(S, n) == UNION {[1..k -> S] : k \in 0..n}

None == [kind |-> "None"]

(***************************************************************************)
(* Chunker: split_text                                                     *)
(***************************************************************************)
\* end = min(start + chunk_size, text_len)
ChunkEnd(start, size, text_len) == Min(start + size, text_len)

\* start += chunk_size - chunk_overlap
\* (faulty variant: the overlap is not subtracted)
NextStartIgnoresOverlap(start, size, overlap) == start + size
NextStart(start, size, overlap) == start + size - overlap

\* text[start:end] with 0 <= start <= end (Python slice, clipped to the text)
Slice(s, start, end) == SubSeq(s, start + 1, Min(end, Len(s)))

\* while start < text_len
\* (faulty variant: the loop stops one character early)
LoopGuardOffByOne(start, text_len) == start < text_len - 1
LoopGuard(start, text_len) == start < text_len

RECURSIVE SplitLoop(_, _, _, _, _)
SplitLoop(t, size, overlap, start, acc) ==
    IF LoopGuard(start, Len(t))
    THEN SplitLoop(t, size, overlap, NextStart(start, size, overlap),
                   Append(acc, Slice(t, start, ChunkEnd(start, size, Len(t)))))
    ELSE acc

split_text(t, size, overlap) ==
    IF t = <<>> THEN <<>> ELSE SplitLoop(t, size, overlap, 0, <<>>)


(***************************************************************************)
(* Values.  A text is a sequence of characters, an embedding a sequence of *)
(* integers (standing for finite floats), a Python list a sequence.        *)
(***************************************************************************)
\* a vector whose dimension differs from the service's
OddVector  == <<1>>
ChunkTexts == {<<"A">>, <<"B", "A">>}

(***************************************************************************)
(* JSON documents, as json.dump writes and json.load reads them.  json.load*)
(* maps array/object/string/number/null to list/dict/str/float/None, so a  *)
(* document's tag is also the type of the Python value load works on.      *)
(***************************************************************************)
JNull        == [j |-> "null"]
JNumber(n)   == [j |-> "number", num |-> n]
JString(str) == [j |-> "string", str |-> str]
JArray(its)  == [j |-> "array", items |-> its]
\* members: sequence of [k |-> key, val |-> document], in written order
JObject(ms)  == [j |-> "object", members |-> ms]
Member(k, v) == [k |-> k, val |-> v]

\* json.dump of a str / of a list of floats
DumpStr(str)  == JString(str)
DumpVector(v) == JArray([i \in 1..Len(v) |-> JNumber(v[i])])

\* the value json.load yields for a string / an array of numbers
LoadValue(d) ==
    IF d.j = "string" THEN d.str
    ELSE IF d.j = "array" THEN [i \in 1..Len(d.items) |-> d.items[i].num]
    ELSE <<>>

\* zip(chunks, embeddings): pairs up to the shorter of the two
ZipLen(cs, es) == Min(Len(cs), Len(es))

\* to_save = [{"text": chunk, "embedding": emb} for chunk, emb in zip(chunks, embeddings)]
\* followed by json.dump(to_save, f)
DumpRecord(chunk, emb) ==
    JObject(<<Member("text", DumpStr(chunk)), Member("embedding", DumpVector(emb))>>)

\* (faulty variant of ToSave: the records are written in reverse order)
ToSaveReversed(cs, es) ==
    JArray([i \in 1..ZipLen(cs, es) |->
               DumpRecord(cs[ZipLen(cs, es) + 1 - i], es[ZipLen(cs, es) + 1 - i])])
ToSave(cs, es) == JArray([i \in 1..ZipLen(cs, es) |-> DumpRecord(cs[i], es[i])])

(***************************************************************************)
(* The file at embeddings_path.                                            *)
(***************************************************************************)
NoFile        == [kind |-> "nofile"]
Unreadable    == [kind |-> "unreadable"]   \* exists, open() fails with IOError
NotUtf8       == [kind |-> "not_utf8"]     \* bytes that do not decode as UTF-8
Garbage       == [kind |-> "garbage"]      \* text that is not JSON (empty, truncated, ...)
JsonFile(doc) == [kind |-> "json", doc |-> doc]

\* save_embeddings(filepath, chunks, embeddings) under an outcome of the file system:
\* "ok", "open_fails" (open raises IOError, nothing written) or "write_fails"
\* (open truncated the file and json.dump raised part-way).  The file afterwards.
FileAfterSave(file, cs, es, outcome) ==
    CASE outcome = "ok"          -> JsonFile(ToSave(cs, es))
      [] outcome = "open_fails"  -> file
      [] outcome = "write_fails" -> Garbage
SaveRaises(outcome) == outcome # "ok"
SaveOutcomes == {"ok", "open_fails", "write_fails"}

\* for item in data: what Python iterates over, or TypeError
Iterable(d) == d.j \in {"array", "object", "string"}
IterItems(d) ==
    CASE d.j = "array"  -> d.items
      [] d.j = "object" -> [i \in 1..Len(d.members) |-> JString(d.members[i].k)]
      [] d.j = "string" -> [i \in 1..Len(d.str) |-> JString(<<d.str[i]>>)]
      [] OTHER          -> <<>>

HasKey(item, key) == \E i \in 1..Len(item.members) : item.members[i].k = key
\* item[key] of a dict: the last member written under that key
GetKey(item, key) ==
    LET last == CHOOSE i \in 1..Len(item.members) :
                    /\ item.members[i].k = key
                    /\ \A m \in (i + 1)..Len(item.members) : item.members[m].k # key
    IN  item.members[last].val

\* the exception item[key] raises, or "none"
SubscriptError(item, key) ==
    IF item.j # "object" THEN "TypeError"
    ELSE IF ~HasKey(item, key) THEN "KeyError"
    ELSE "none"

\* [item[key] for item in data]
Comprehension(data, key) ==
    IF ~Iterable(data) THEN [kind |-> "raise", exc |-> "TypeError"]
    ELSE LET its == IterItems(data)
             bad == {i \in 1..Len(its) : SubscriptError(its[i], key) # "none"}
         IN  IF bad # {}
             THEN LET first == CHOOSE i \in bad : \A m \in bad : i <= m
                  IN  [kind |-> "raise", exc |-> SubscriptError(its[first], key)]
             ELSE [kind |-> "list",
                   v |-> [i \in 1..Len(its) |-> LoadValue(GetKey(its[i], key))]]

\* except (json.JSONDecodeError, KeyError, IOError)
CaughtByLoad == {"JSONDecodeError", "KeyError", "IOError"}

Absent == [kind |-> "absent"]
Raise(exc) == [kind |-> "raise", exc |-> exc]
LoadHandler(exc) == IF exc \in CaughtByLoad THEN Absent ELSE Raise(exc)

\* load_embeddings(filepath): (None, None), (chunks, embeddings) or a raised exception
load_embeddings(file) ==
    CASE file.kind = "nofile"     -> Absent
      [] file.kind = "unreadable" -> LoadHandler("IOError")
      [] file.kind = "not_utf8"   -> LoadHandler("UnicodeDecodeError")
      [] file.kind = "garbage"    -> LoadHandler("JSONDecodeError")
      [] file.kind = "json"       ->
            LET cs == Comprehension(file.doc, "text")
                es == Comprehension(file.doc, "embedding")
            IN  IF cs.kind = "raise" THEN LoadHandler(cs.exc)
                ELSE IF es.kind = "raise" THEN LoadHandler(es.exc)
                ELSE [kind |-> "loaded", chunks |-> cs.v, embeddings |-> es.v]

(***************************************************************************)
(* Retriever: cosine_similarity and get_relevant_chunks.                   *)
(*                                                                         *)
(* A score is the float cosine_similarity returns.  The value d / sqrt(A*B)*)
(* is kept exactly as its signed square num / den with num = d*|d| and     *)
(* den = A*B, which orders the same way; nan marks IEEE not-a-number.      *)
(***************************************************************************)
NaN         == [nan |-> TRUE, num |-> 0, den |-> 1]
Real(n, d)  == [nan |-> FALSE, num |-> n, den |-> d]
Zero        == Real(0, 1)

IsZero(x) == ~x.nan /\ x.num = 0
IsOne(x)  == ~x.nan /\ x.num = x.den
\* x < y and x == y on floats: every comparison with nan is false
Lt(x, y)  == ~x.nan /\ ~y.nan /\ x.num * y.den < y.num * x.den
Eq(x, y)  == ~x.nan /\ ~y.nan /\ x.num * y.den = y.num * x.den

RECURSIVE Dot(_, _)
Dot(a, b) == IF a = <<>> THEN 0 ELSE a[1] * b[1] + Dot(Tail(a), Tail(b))

\* x / y for numpy floats with x = 0 whenever y = 0: 0.0 / 0.0 is nan and a
\* RuntimeWarning, not an exception
Divide(d, normsq) ==
    IF normsq = 0 THEN NaN ELSE Real(d * Abs(d), normsq)

\* try: return np.dot(a, b) / (np.linalg.norm(a) * np.linalg.norm(b))
\* except Exception: return 0.0
\* np.dot of two 1-d arrays of different lengths raises ValueError.
cosine_similarity(a, b) ==
    IF Len(a) # Len(b) THEN Zero
    ELSE Divide(Dot(a, b), Dot(a, a) * Dot(b, b))

Reverse(s) == [i \in 1..Len(s) |-> s[Len(s) + 1 - i]]

(***************************************************************************)
(* sorted(zip(chunks, scores), key=lambda x: x[1], reverse=True), as       *)
(* CPython's list.sort does it for a list shorter than 64: reverse the     *)
(* list, find the initial run (count_run), binary-insert the rest          *)
(* (binarysort), reverse the result.  Elements are [chunk, score] pairs,   *)
(* compared by score with <.                                               *)
(***************************************************************************)
KeyLt(x, y) == Lt(x.score, y.score)

\* count_run: last index of the run starting at s[1]; desc says which way it runs
RECURSIVE RunEnd(_, _, _)
RunEnd(s, i, desc) ==
    IF i = Len(s) THEN i
    ELSE IF KeyLt(s[i + 1], s[i]) = desc THEN RunEnd(s, i + 1, desc)
    ELSE i

\* binarysort's search: where pivot goes in the sorted s[1..r], right of equal keys
RECURSIVE InsertPos(_, _, _, _)
InsertPos(s, pivot, l, r) ==
    IF l >= r THEN l
    ELSE LET p == l + ((r - l) \div 2)
         IN  IF KeyLt(pivot, s[p + 1]) THEN InsertPos(s, pivot, l, p)
             ELSE InsertPos(s, pivot, p + 1, r)

\* s with s[i] moved to 0-based position pos <= i - 1
MoveTo(s, i, pos) ==
    [k \in 1..Len(s) |->
        IF k <= pos THEN s[k]
        ELSE IF k = pos + 1 THEN s[i]
        ELSE IF k <= i THEN s[k - 1]
        ELSE s[k]]

RECURSIVE BinarySort(_, _)
BinarySort(s, start) ==
    IF start > Len(s) THEN s
    ELSE BinarySort(MoveTo(s, start, InsertPos(s, s[start], 0, start - 1)), start + 1)

ListSort(s) ==
    IF Len(s) < 2 THEN s
    ELSE LET desc == KeyLt(s[2], s[1])
             n    == RunEnd(s, 2, desc)
             head == IF desc THEN Reverse(SubSeq(s, 1, n)) \o SubSeq(s, n + 1, Len(s))
                     ELSE s
         IN  BinarySort(head, n + 1)

SortedReverse(s) == Reverse(ListSort(Reverse(s)))

\* ranked[:top_k] for top_k >= 0
Take(s, k) == SubSeq(s, 1, Min(k, Len(s)))

\* scores = [cosine_similarity(query_emb, emb) for emb in embeddings]
\* ranked = sorted(zip(chunks, scores), key=lambda x: x[1], reverse=True)
\* return [chunk for chunk, score in ranked[:top_k]]
RankChunks(query_emb, cs, es, top_k) ==
    LET pairs  == [i \in 1..ZipLen(cs, es) |->
                      [chunk |-> cs[i], score |-> cosine_similarity(query_emb, es[i])]]
        ranked == Take(SortedReverse(pairs), top_k)
    IN  [i \in 1..Len(ranked) |-> ranked[i].chunk]

\* what one call of the embedding service does: raise, or return a vector
EmbedFails    == [kind |-> "raise"]
EmbedGives(v) == [kind |-> "vector", v |-> v]

\* if not chunks or not embeddings: return []
EmptyCorpus(cs, es) == cs = <<>> \/ es = <<>>

\* except Exception as e: ... return []
\* (faulty variant: the handler re-raises, as embed_texts' handler does)
ExceptHandlerReraises(embedCalls) == [kind |-> "raise", result |-> <<>>, embedCalls |-> embedCalls]
ExceptHandler(embedCalls) == [kind |-> "return", result |-> <<>>, embedCalls |-> embedCalls]

\* get_relevant_chunks(query, chunks, embeddings, top_k) when the one call that
\* embed_texts([query]) makes to the service ends as `embed`: how the call ends
\* ("return" or "raise"), the list returned and the number of calls made to the
\* embedder
get_relevant_chunks(cs, es, top_k, embed) ==
    IF EmptyCorpus(cs, es)
    THEN [kind |-> "return", result |-> <<>>, embedCalls |-> 0]
    ELSE IF embed.kind = "raise" THEN ExceptHandler(1)
    ELSE [kind |-> "return", result |-> RankChunks(embed.v, cs, es, top_k),
          embedCalls |-> 1]

\* The probe variables of a specification that does not use them stay at these values.
IdleSplit == /\ text = <<>> /\ chunk_size = 1 /\ chunk_overlap = 0
             /\ splitOut = [kind |-> "pending"]
IdleCache == /\ saveArgs = None /\ loadOut = [kind |-> "pending"]
IdleRetr  == /\ rq = None /\ simOut = [kind |-> "pending"] /\ retrOut = [kind |-> "pending"]
IdleProc  == /\ pdf = None /\ pc = "off" /\ ing = None
             /\ chunks = <<>> /\ embeddings = <<>> /\ reqs = <<>>
             /\ run = 0 /\ calls = None /\ lastCall = None /\ firstBuild = None

(***************************************************************************)
(* SpecSplit: split_text on every text over Alphabet up to MaxTextLen and  *)
(* every chunk_size > chunk_overlap >= 0 up to MaxChunkSize.               *)
(***************************************************************************)
InitSplit ==
    /\ text \in SeqsUpTo(Alphabet, MaxTextLen)
    /\ chunk_size \in 1..MaxChunkSize
    /\ chunk_overlap \in 0..(chunk_size - 1)
    /\ splitOut = [kind |-> "pending"]
    /\ cacheFile = [kind |-> "nofile"]
    /\ IdleCache /\ IdleRetr /\ IdleProc

SplitText ==
    /\ splitOut.kind = "pending"
    /\ splitOut' = [kind |-> "chunks", v |-> split_text(text, chunk_size, chunk_overlap)]
    /\ UNCHANGED <<text, chunk_size, chunk_overlap, cacheFile, cacheVars, retrVars, procVars>>

NextSplit == SplitText
SpecSplit == InitSplit /\ [][NextSplit]_vars

\* s without its first n elements (s[n:])
DropFirst(s, n) == SubSeq(s, n + 1, Len(s))

RECURSIVE ConcatFrom(_, _, _)
ConcatFrom(cs, k, overlap) ==
    IF k > Len(cs) THEN <<>> ELSE DropFirst(cs[k], overlap) \o ConcatFrom(cs, k + 1, overlap)

\* the first chunk followed by each later chunk without its leading overlap
Reconstruct(cs, overlap) ==
    IF cs = <<>> THEN <<>> ELSE cs[1] \o ConcatFrom(cs, 2, overlap)

\* C4: split(T, C, O) is, in order, exactly the windows T[s : min(s+C, len T)] for
\* s = 0, C-O, 2(C-O), ... while s < len T; the final partial remainder is a chunk,
\* every character of T lies in some chunk, the first chunk plus each later chunk
\* without its leading overlap is T, and split of the empty text is empty.
C4_SplitWindows ==
    splitOut.kind = "chunks" =>
        LET n      == Len(text)
            step   == chunk_size - chunk_overlap
            out    == splitOut.v
            starts == {s \in 0..(n - 1) : s % step = 0}
        IN  /\ Len(out) = Cardinality(starts)
            /\ \A k \in 1..Len(out) :
                   out[k] = SubSeq(text, (k - 1) * step + 1,
                                   Min((k - 1) * step + chunk_size, n))
            /\ \A i \in 1..n : \E k \in 1..Len(out) :
                   /\ (k - 1) * step < i
                   /\ i <= (k - 1) * step + Len(out[k])
            /\ Reconstruct(out, chunk_overlap) = text
            /\ (text = <<>> => out = <<>>)

\* a split with overlap, several chunks and a last chunk shorter than chunk_size
C4_Witness ==
    /\ splitOut.kind = "chunks"
    /\ chunk_overlap > 0
    /\ Len(splitOut.v) >= 3
    /\ Len(splitOut.v[Len(splitOut.v)]) < chunk_size
    /\ \E i, j \in 1..Len(text) : text[i] # text[j]

\* C5 as stated: for non-empty T the number of chunks is ceil((len T - O) / (C - O)).
C5_CountAsStated ==
    (splitOut.kind = "chunks" /\ text # <<>>) =>
        Len(splitOut.v) = CeilDiv(Len(text) - chunk_overlap, chunk_size - chunk_overlap)

\* C5 amended: for non-empty T the number of chunks is ceil(len T / (C - O)): one chunk
\* per start offset 0, C-O, 2(C-O), ... below len T.
C5_CountAmended ==
    (splitOut.kind = "chunks" /\ text # <<>>) =>
        Len(splitOut.v) = CeilDiv(Len(text), chunk_size - chunk_overlap)

\* a non-empty text split with overlap where the two counts differ
C5_Witness ==
    /\ splitOut.kind = "chunks"
    /\ text # <<>>
    /\ chunk_overlap > 0
    /\ Len(splitOut.v) >= 2
    /\ Len(splitOut.v) # CeilDiv(Len(text) - chunk_overlap, chunk_size - chunk_overlap)


(***************************************************************************)
(* SpecCache: one save_embeddings and any number of load_embeddings on one *)
(* cache path, starting from every file content of ProbeFiles.             *)
(***************************************************************************)
GoodRecord == DumpRecord(<<"A">>, <<1, 0>>)
ProbeItems ==
    { JNumber(1), JString(<<"A">>), JObject(<<>>),
      JObject(<<Member("text", DumpStr(<<"A">>))>>),
      JObject(<<Member("embedding", DumpVector(<<0, 1>>))>>),
      GoodRecord }
ProbeDocs ==
    { JNull, JNumber(5), JString(<<>>), JString(<<"A">>), JObject(<<>>), GoodRecord }
    \cup { JArray(its) : its \in SeqsUpTo(ProbeItems, MaxCacheLen) }
ProbeFiles ==
    { NoFile, Unreadable, NotUtf8, Garbage } \cup { JsonFile(d) : d \in ProbeDocs }

SaveVectors == { <<1, 0>>, <<0, -1>> }

InitCache ==
    /\ cacheFile \in ProbeFiles
    /\ IdleCache /\ IdleSplit /\ IdleRetr /\ IdleProc

\* save_embeddings(filepath, cs, es)
SaveEmbeddings ==
    /\ saveArgs = None
    /\ \E cs \in SeqsUpTo(ChunkTexts, MaxCacheLen), es \in SeqsUpTo(SaveVectors, MaxCacheLen),
          outcome \in SaveOutcomes :
          /\ cacheFile' = FileAfterSave(cacheFile, cs, es, outcome)
          /\ saveArgs' = [kind |-> "save", chunks |-> cs, embeddings |-> es,
                          raised |-> SaveRaises(outcome)]
    /\ loadOut' = [kind |-> "pending"]
    /\ UNCHANGED <<splitVars, retrVars, procVars>>

\* load_embeddings(filepath)
LoadEmbeddings ==
    /\ loadOut.kind = "pending"
    /\ loadOut' = load_embeddings(cacheFile)
    /\ UNCHANGED <<cacheFile, saveArgs, splitVars, retrVars, procVars>>

NextCache == SaveEmbeddings \/ LoadEmbeddings
SpecCache == InitCache /\ [][NextCache]_vars

\* a cache file as save_embeddings writes it: an array of objects with both keys
WellFormed(doc) ==
    /\ doc.j = "array"
    /\ \A i \in 1..Len(doc.items) :
           /\ doc.items[i].j = "object"
           /\ HasKey(doc.items[i], "text")
           /\ HasKey(doc.items[i], "embedding")

\* C2 as stated: load never raises, and for a missing file and for every corrupt,
\* unparsable or field-lacking content (invalid JSON, not an array, items that are not
\* objects, objects lacking "text" or "embedding") it returns (absent, absent).
C2_LoadNeverRaises ==
    loadOut.kind # "pending" =>
        /\ loadOut.kind # "raise"
        /\ (cacheFile.kind # "json" \/ ~WellFormed(cacheFile.doc)) => loadOut = Absent

\* C3: save(path, c, v) with len(c) = len(v) followed by load(path) returns exactly
\* (c, v): same length, same order.
C3_RoundTrip ==
    ( /\ saveArgs.kind = "save"
      /\ ~saveArgs.raised
      /\ Len(saveArgs.chunks) = Len(saveArgs.embeddings)
      /\ loadOut.kind # "pending" )
    => loadOut = [kind |-> "loaded", chunks |-> saveArgs.chunks,
                  embeddings |-> saveArgs.embeddings]

\* a round trip of two different records, and one of the empty lists over old content
C3_Witness ==
    /\ saveArgs.kind = "save"
    /\ ~saveArgs.raised
    /\ Len(saveArgs.chunks) = Len(saveArgs.embeddings)
    /\ Len(saveArgs.chunks) >= 2
    /\ saveArgs.chunks[1] # saveArgs.chunks[2]
    /\ saveArgs.embeddings[1] # saveArgs.embeddings[2]
    /\ loadOut.kind = "loaded"


(***************************************************************************)
(* SpecRetrieve: cosine_similarity on every pair of RetrVectors, and       *)
(* get_relevant_chunks on every corpus of up to MaxCorpus chunks.          *)
(***************************************************************************)
RetrVectors == { <<1, 0>>, <<1, 1>>, <<0, 1>>, <<-1, 0>>, <<0, 0>>, OddVector }
ProbeChunk(i) == [k \in 1..i |-> "A"]

InitRetrieve ==
    /\ \/ \E a, b \in RetrVectors : rq = [kind |-> "cos", a |-> a, b |-> b]
       \/ \E n, m \in 0..MaxCorpus :
          \E es \in [1..m -> RetrVectors], k \in 1..MaxTopK,
             embed \in {EmbedFails} \cup {EmbedGives(v) : v \in RetrVectors} :
             rq = [kind |-> "retrieve", chunks |-> [i \in 1..n |-> ProbeChunk(i)],
                   embeddings |-> es, top_k |-> k, embed |-> embed]
    /\ simOut = [kind |-> "pending"] /\ retrOut = [kind |-> "pending"]
    /\ cacheFile = NoFile
    /\ IdleSplit /\ IdleCache /\ IdleProc

CosineSimilarity ==
    /\ rq.kind = "cos" /\ simOut.kind = "pending"
    /\ simOut' = [kind |-> "score", score |-> cosine_similarity(rq.a, rq.b)]
    /\ UNCHANGED <<rq, retrOut, cacheFile, splitVars, cacheVars, procVars>>

GetRelevantChunks ==
    /\ rq.kind = "retrieve" /\ retrOut.kind = "pending"
    /\ retrOut' = get_relevant_chunks(rq.chunks, rq.embeddings, rq.top_k, rq.embed)
    /\ UNCHANGED <<rq, simOut, cacheFile, splitVars, cacheVars, procVars>>

NextRetrieve == CosineSimilarity \/ GetRelevantChunks
SpecRetrieve == InitRetrieve /\ [][NextRetrieve]_vars

ZeroNorm(v) == Dot(v, v) = 0

\* C9 as stated: cosine_similarity(a, b) is exactly 0.0 (no error, no NaN) whenever a
\* or b has zero norm, and cosine_similarity(a, a) is 1.0 for every non-zero a.
C9_CosineZeroAndSelf ==
    (rq.kind = "cos" /\ simOut.kind = "score") =>
        /\ (ZeroNorm(rq.a) \/ ZeroNorm(rq.b)) => IsZero(simOut.score)
        /\ (rq.a = rq.b /\ ~ZeroNorm(rq.a)) => IsOne(simOut.score)

\* the similarity the retriever is specified to rank by: 0.0 where a norm is zero
SpecifiedScore(a, b) ==
    IF Len(a) # Len(b) \/ ZeroNorm(a) \/ ZeroNorm(b) THEN Zero
    ELSE Real(Dot(a, b) * Abs(Dot(a, b)), Dot(a, a) * Dot(b, b))

\* chunk j ranks before chunk i: higher similarity, or equal similarity and earlier
Before(q, es, j, i) ==
    \/ Lt(SpecifiedScore(q, es[i]), SpecifiedScore(q, es[j]))
    \/ (Eq(SpecifiedScore(q, es[i]), SpecifiedScore(q, es[j])) /\ j < i)

\* position of chunk i in the descending, stable ranking
RankOf(q, es, i) == 1 + Cardinality({j \in 1..Len(es) : Before(q, es, j, i)})

\* C6 as stated: when the embedder succeeds, retrieve returns min(top_k, number of
\* chunks) chunk texts, ordered by descending cosine similarity to the query, equal
\* scores in original chunk order.
C6_TopKDescending ==
    ( /\ rq.kind = "retrieve" /\ retrOut.kind # "pending"
      /\ rq.embed.kind = "vector"
      /\ Len(rq.chunks) = Len(rq.embeddings) )
    => /\ retrOut.kind = "return"
       /\ Len(retrOut.result) = Min(rq.top_k, Len(rq.chunks))
       /\ \A k \in 1..Len(retrOut.result) :
              \E i \in 1..Len(rq.chunks) :
                  /\ RankOf(rq.embed.v, rq.embeddings, i) = k
                  /\ retrOut.result[k] = rq.chunks[i]

\* the ranking is the specified one whenever no stored vector and no query has zero
\* norm (no score is NaN)
RankingWithoutNaN ==
    ( /\ rq.kind = "retrieve" /\ retrOut.kind # "pending"
      /\ rq.embed.kind = "vector"
      /\ Len(rq.chunks) = Len(rq.embeddings)
      /\ (ZeroNorm(rq.embed.v) \/ \E i \in 1..Len(rq.embeddings) : ZeroNorm(rq.embeddings[i])) )
    \/ C6_TopKDescending


(***************************************************************************)
(* Spec: the process of main.py.  Each start runs startup_event, whose one *)
(* call of load_pdf_chunks_and_embeddings is followed step by step (`ing`);*)
(* once it has returned, chat requests are served concurrently, each       *)
(* suspended at its awaits.  The cache file outlives the process.          *)
(***************************************************************************)
Requests == {"r1", "r2"}

\* calls made to the embedding service return one of these, or raise
ServiceVectors == { <<1, 0>>, <<0, 0>> }
EmbedOutcomes  == {EmbedFails} \cup {EmbedGives(v) : v \in ServiceVectors}

\* the text PyPDF2 extracts from the document
DocText(n) == [i \in 1..n |-> IF i % 2 = 1 THEN "A" ELSE "B"]
DocLens == {0} \cup {1 + (k - 1) * (DefaultChunkSize - DefaultChunkOverlap) : k \in 1..MaxDocChunks}
Pdfs == { [kind |-> "missing"], [kind |-> "unparsable"], [kind |-> "text", text |-> <<" ">>] }
        \cup { [kind |-> "text", text |-> DocText(n)] : n \in DocLens }

StaleCache == JsonFile(ToSave(<<<<"B">>>>, <<<<0, 1>>>>))
StartFiles == { NoFile, Garbage, JsonFile(JArray(<<JNumber(1)>>)), StaleCache }

\* what this process's ingestion call has done so far: calls made, the step that
\* failed (if any) and the cache file as the call found it
NoCalls == [extract |-> 0, split |-> 0, embed |-> 0, provider |-> 0, save |-> 0,
            failed |-> "none", file0 |-> NoFile]
IdleReq == [pc |-> "idle", retrieval |-> "none", embedCalls |-> 0, context |-> <<>>,
            sent |-> None, streamed |-> FALSE]

Init ==
    /\ pdf \in Pdfs
    /\ cacheFile \in StartFiles
    /\ pc = "off"
    /\ ing = None
    /\ chunks = <<>> /\ embeddings = <<>>
    /\ reqs = [r \in Requests |-> IdleReq]
    /\ run = 0
    /\ calls = NoCalls
    /\ lastCall = None
    /\ firstBuild = None
    /\ IdleSplit /\ IdleCache /\ IdleRetr

probeVars == <<splitVars, cacheVars, retrVars>>

\* the state of one call of load_pdf_chunks_and_embeddings
Call(stage, failure, how, t, cs, es) ==
    [kind |-> "call", stage |-> stage, failure |-> failure, how |-> how,
     text |-> t, chunks |-> cs, embeddings |-> es]

\* except Exception as e: ... raise  (load_pdf_chunks_and_embeddings, embed_texts):
\* nothing built so far is returned
Raised(c, failure) == Call("raised", failure, "none", <<>>, <<>>, <<>>)

\* the process starts: module globals chunks = [], embeddings = [], then startup_event
\* calls load_pdf_chunks_and_embeddings("TravelContext.pdf")
Boot ==
    /\ pc = "off" /\ run < MaxRuns
    /\ pc' = "startup"
    /\ run' = run + 1
    /\ chunks' = <<>> /\ embeddings' = <<>>
    /\ reqs' = [r \in Requests |-> IdleReq]
    /\ calls' = [NoCalls EXCEPT !.file0 = cacheFile]
    /\ lastCall' = None
    /\ ing' = Call("load", "none", "none", <<>>, <<>>, <<>>)
    /\ UNCHANGED <<pdf, cacheFile, firstBuild, probeVars>>

\* if chunks is not None and embeddings is not None
\* (faulty variant: `if chunks and embeddings`, which empty lists fail)
CacheHitIfNonEmpty(loaded) ==
    loaded.kind = "loaded" /\ loaded.chunks # <<>> /\ loaded.embeddings # <<>>
CacheHit(loaded) == loaded.kind = "loaded"

\* chunks, embeddings = load_embeddings(embeddings_path); a hit returns them
TryCacheLoad ==
    /\ pc = "startup" /\ ing.stage = "load"
    /\ LET loaded == load_embeddings(cacheFile)
       IN  /\ ing' = IF loaded.kind = "raise" THEN Raised(ing, "load")
                      ELSE IF CacheHit(loaded)
                      THEN Call("returned", "none", "hit", <<>>,
                                loaded.chunks, loaded.embeddings)
                      ELSE [ing EXCEPT !.stage = "extract"]
           /\ calls' = [calls EXCEPT !.failed = IF loaded.kind = "raise" THEN "load" ELSE @]
    /\ UNCHANGED <<pdf, cacheFile, pc, chunks, embeddings, reqs, run, lastCall,
                   firstBuild, probeVars>>

\* text = extract_text_from_pdf(pdf_path): FileNotFoundError, a parse error, or the text
\* (an empty or blank text is only logged)
Extract ==
    /\ pc = "startup" /\ ing.stage = "extract"
    /\ calls' = [calls EXCEPT !.extract = @ + 1,
                              !.failed = IF pdf.kind = "text" THEN @ ELSE "extract"]
    /\ ing' = IF pdf.kind = "text"
              THEN [ing EXCEPT !.stage = "chunk", !.text = pdf.text]
              ELSE Raised(ing, "extract")
    /\ UNCHANGED <<pdf, cacheFile, pc, chunks, embeddings, reqs, run, lastCall,
                   firstBuild, probeVars>>

\* chunks = split_text(text)
Chunk ==
    /\ pc = "startup" /\ ing.stage = "chunk"
    /\ calls' = [calls EXCEPT !.split = @ + 1]
    /\ ing' = [ing EXCEPT !.stage = "embed",
                          !.chunks = split_text(ing.text, DefaultChunkSize, DefaultChunkOverlap)]
    /\ UNCHANGED <<pdf, cacheFile, pc, chunks, embeddings, reqs, run, lastCall,
                   firstBuild, probeVars>>

\* embeddings = await embed_texts(chunks): an empty list is returned at once, without
\* a call to the service; otherwise the loop awaits its first call
EmbedTexts ==
    /\ pc = "startup" /\ ing.stage = "embed"
    /\ calls' = [calls EXCEPT !.embed = @ + 1]
    /\ ing' = [ing EXCEPT !.stage = IF ing.chunks = <<>> THEN "persist" ELSE "embedding"]
    /\ UNCHANGED <<pdf, cacheFile, pc, chunks, embeddings, reqs, run, lastCall,
                   firstBuild, probeVars>>

\* embed_texts' except clause: log and raise
\* (faulty variant: the embeddings made so far are returned)
EmbedExceptReturnsPartial(c) == [c EXCEPT !.stage = "persist"]
EmbedExcept(c) == Raised(c, "embed")

\* one iteration of embed_texts' loop: the call for the next text returns or raises
EmbedChunk ==
    /\ pc = "startup" /\ ing.stage = "embedding"
    /\ \E out \in EmbedOutcomes :
          /\ calls' = [calls EXCEPT !.provider = @ + 1,
                                    !.failed = IF out.kind = "raise" THEN "embed" ELSE @]
          /\ ing' = IF out.kind = "raise" THEN EmbedExcept(ing)
                    ELSE LET es == Append(ing.embeddings, out.v)
                         IN  [ing EXCEPT !.embeddings = es,
                                         !.stage = IF Len(es) = Len(ing.chunks)
                                                   THEN "persist" ELSE "embedding"]
    /\ UNCHANGED <<pdf, cacheFile, pc, chunks, embeddings, reqs, run, lastCall,
                   firstBuild, probeVars>>

\* save_embeddings(embeddings_path, chunks, embeddings); return chunks, embeddings
Persist ==
    /\ pc = "startup" /\ ing.stage = "persist"
    /\ \E outcome \in SaveOutcomes :
          /\ calls' = [calls EXCEPT !.save = @ + 1,
                                    !.failed = IF SaveRaises(outcome) THEN "persist" ELSE @]
          /\ cacheFile' = FileAfterSave(cacheFile, ing.chunks, ing.embeddings, outcome)
          /\ ing' = IF SaveRaises(outcome) THEN Raised(ing, "persist")
                    ELSE [ing EXCEPT !.stage = "returned", !.how = "build"]
          /\ firstBuild' = IF ~SaveRaises(outcome) /\ firstBuild = None
                           THEN [kind |-> "built", run |-> run, over |-> cacheFile.kind,
                                 chunks |-> ing.chunks, embeddings |-> ing.embeddings]
                           ELSE firstBuild
    /\ UNCHANGED <<pdf, pc, chunks, embeddings, reqs, run, lastCall, probeVars>>

\* global chunks, embeddings; chunks, embeddings = await load_pdf_chunks_and_embeddings(...)
\* (faulty variant: only chunks is declared global, embeddings stays [])
StartupAssignChunksOnly(c) == [chunks |-> c.chunks, embeddings |-> <<>>]
StartupAssign(c) == [chunks |-> c.chunks, embeddings |-> c.embeddings]

\* startup_event returns: the application starts serving
StartupDone ==
    /\ pc = "startup" /\ ing.stage = "returned"
    /\ chunks' = StartupAssign(ing).chunks
    /\ embeddings' = StartupAssign(ing).embeddings
    /\ pc' = "serving"
    /\ lastCall' = [kind |-> "return", how |-> ing.how]
    /\ ing' = None
    /\ UNCHANGED <<pdf, cacheFile, reqs, run, calls, firstBuild, probeVars>>

\* startup_event's except clause: log and raise, so the application does not start
StartupExcept == "failed"

StartupFailed ==
    /\ pc = "startup" /\ ing.stage = "raised"
    /\ pc' = StartupExcept
    /\ lastCall' = [kind |-> "raise", failure |-> ing.failure]
    /\ ing' = None
    /\ UNCHANGED <<pdf, cacheFile, chunks, embeddings, reqs, run, calls, firstBuild, probeVars>>

\* the process ends (shutdown, crash, or the failed startup); its memory is gone
Exit ==
    /\ pc \in {"serving", "failed"}
    /\ pc' = "off"
    /\ chunks' = <<>> /\ embeddings' = <<>>
    /\ reqs' = [r \in Requests |-> IdleReq]
    /\ calls' = NoCalls
    /\ lastCall' = None
    /\ UNCHANGED <<pdf, cacheFile, ing, run, firstBuild, probeVars>>

\* "\n\n".join(relevant_chunks)
RECURSIVE Join(_)
Join(parts) ==
    IF parts = <<>> THEN <<>>
    ELSE IF Len(parts) = 1 THEN parts[1]
    ELSE parts[1] \o <<"\n", "\n">> \o Join(Tail(parts))

\* chat_get after get_relevant_chunks has ended as res: an exception leaves the handler
\* (the request fails); otherwise the context is joined and the messages are built
AfterRetrieval(req, res, outcome) ==
    IF res.kind = "raise"
    THEN [req EXCEPT !.pc = "error", !.retrieval = outcome, !.embedCalls = res.embedCalls]
    ELSE [req EXCEPT !.pc = "respond", !.retrieval = outcome,
                     !.embedCalls = res.embedCalls, !.context = Join(res.result)]

\* GET /chat arrives: relevant_chunks = await get_relevant_chunks(message, chunks,
\* embeddings, top_k=3) runs up to the embedder's await; with an empty corpus it
\* returns [] at once and the handler goes on to build its response
ChatGet(r) ==
    /\ pc = "serving" /\ reqs[r].pc = "idle"
    /\ reqs' = [reqs EXCEPT ![r] =
                   IF EmptyCorpus(chunks, embeddings)
                   THEN AfterRetrieval(@, get_relevant_chunks(chunks, embeddings, ChatTopK,
                                                              EmbedFails), "skipped")
                   ELSE [@ EXCEPT !.pc = "embedding"]]
    /\ UNCHANGED <<pdf, cacheFile, pc, ing, chunks, embeddings, run, calls, lastCall,
                   firstBuild, probeVars>>

\* the embedder's call for the query returns or raises; scoring, ranking and the rest
\* of chat_get up to the StreamingResponse follow without suspension
EmbedQueryReturns(r) ==
    /\ pc = "serving" /\ reqs[r].pc = "embedding"
    /\ \E out \in EmbedOutcomes :
          reqs' = [reqs EXCEPT ![r] =
                      AfterRetrieval(@, get_relevant_chunks(chunks, embeddings, ChatTopK, out),
                                     IF out.kind = "raise" THEN "failed" ELSE "ok")]
    /\ UNCHANGED <<pdf, cacheFile, pc, ing, chunks, embeddings, run, calls, lastCall,
                   firstBuild, probeVars>>

\* event_generator starts: client.chat.completions.create(messages=..., stream=True)
\* is called with the context in the second system message, and returns or raises
ChatCompletion(r) ==
    /\ pc = "serving" /\ reqs[r].pc = "respond"
    /\ \E ok \in BOOLEAN :
          reqs' = [reqs EXCEPT ![r] =
                      [@ EXCEPT !.pc = IF ok THEN "tokens" ELSE "chat_failed",
                                !.sent = [kind |-> "messages", context |-> reqs[r].context]]]
    /\ UNCHANGED <<pdf, cacheFile, pc, ing, chunks, embeddings, run, calls, lastCall,
                   firstBuild, probeVars>>

\* async for token in ...: yield f"data: {token}\n\n"  (any number of tokens)
StreamToken(r) ==
    /\ pc = "serving" /\ reqs[r].pc = "tokens"
    /\ reqs' = [reqs EXCEPT ![r] = [@ EXCEPT !.streamed = TRUE]]
    /\ UNCHANGED <<pdf, cacheFile, pc, ing, chunks, embeddings, run, calls, lastCall,
                   firstBuild, probeVars>>

\* the token stream is exhausted: yield "data: [DONE]\n\n"
StreamDone(r) ==
    /\ pc = "serving" /\ reqs[r].pc = "tokens"
    /\ reqs' = [reqs EXCEPT ![r] = [@ EXCEPT !.pc = "done"]]
    /\ UNCHANGED <<pdf, cacheFile, pc, ing, chunks, embeddings, run, calls, lastCall,
                   firstBuild, probeVars>>

\* the client disconnects: the rest of this request's stream is cancelled
Disconnect(r) ==
    /\ pc = "serving" /\ reqs[r].pc \in {"respond", "tokens"}
    /\ reqs' = [reqs EXCEPT ![r] = [@ EXCEPT !.pc = "aborted"]]
    /\ UNCHANGED <<pdf, cacheFile, pc, ing, chunks, embeddings, run, calls, lastCall,
                   firstBuild, probeVars>>

Startup == TryCacheLoad \/ Extract \/ Chunk \/ EmbedTexts \/ EmbedChunk \/ Persist
Serve(r) == ChatGet(r) \/ EmbedQueryReturns(r) \/ ChatCompletion(r) \/ StreamToken(r)
            \/ StreamDone(r) \/ Disconnect(r)

Next ==
    \/ Boot
    \/ Startup
    \/ StartupDone
    \/ StartupFailed
    \/ Exit
    \/ \E r \in Requests : Serve(r)

Spec == Init /\ [][Next]_vars

AllIdle == \A r \in Requests : reqs[r].pc = "idle"

\* C1: the first successful build runs extraction, chunking, embedding and persistence
\* exactly once each (one service call per chunk), and every later call is a cache hit
\* returning the same (chunks, vectors) with no extraction and no embedding call; also
\* when the document's text is empty.
C1_BuildOnceThenHit ==
    /\ (ing.kind = "call" /\ ing.stage = "returned" /\ ing.how = "build") =>
           /\ calls.extract = 1 /\ calls.split = 1 /\ calls.embed = 1 /\ calls.save = 1
           /\ calls.provider = Len(ing.chunks)
    /\ (firstBuild.kind = "built" /\ run > firstBuild.run /\ ing.kind = "call") =>
           /\ ing.stage \in {"load", "returned"}
           /\ ing.stage = "returned" =>
                  /\ ing.how = "hit"
                  /\ ing.chunks = firstBuild.chunks
                  /\ ing.embeddings = firstBuild.embeddings
                  /\ calls.extract = 0 /\ calls.embed = 0 /\ calls.provider = 0

\* a later start hits the cache that the first build wrote where no file was
C1_Witness ==
    /\ firstBuild.kind = "built" /\ firstBuild.over = "nofile"
    /\ Len(firstBuild.chunks) >= 2
    /\ run > firstBuild.run
    /\ ing.kind = "call" /\ ing.stage = "returned" /\ ing.how = "hit"

\* the same for a document whose extracted text is empty
C1_WitnessEmptyText ==
    /\ firstBuild.kind = "built" /\ firstBuild.over = "nofile"
    /\ firstBuild.chunks = <<>>
    /\ run > firstBuild.run
    /\ ing.kind = "call" /\ ing.stage = "returned" /\ ing.how = "hit"

\* C7: no request ends with an exception from retrieval; a failed query embedding gives
\* the empty context, the handler goes on to its response and the chat completion is
\* called with that empty context; with an empty corpus the result is empty and the
\* embedder is not called.
C7_RetrievalNeverPropagates ==
    \A r \in Requests :
        LET q == reqs[r]
        IN  /\ q.pc # "error"
            /\ q.retrieval = "failed" =>
                   /\ q.pc \in {"respond", "tokens", "done", "aborted", "chat_failed"}
                   /\ q.context = <<>>
                   /\ q.embedCalls = 1
                   /\ q.sent.kind = "messages" => q.sent.context = <<>>
            /\ q.pc \in {"tokens", "done", "chat_failed"} => q.sent.kind = "messages"
            /\ (q.retrieval # "none" /\ EmptyCorpus(chunks, embeddings)) =>
                   /\ q.retrieval = "skipped"
                   /\ q.embedCalls = 0
                   /\ q.context = <<>>

\* one request whose query embedding failed has been answered by the chat completion,
\* called with the empty context, while the corpus is not empty
C7_Witness ==
    /\ pc = "serving" /\ chunks # <<>>
    /\ \E r \in Requests :
          /\ reqs[r].retrieval = "failed"
          /\ reqs[r].pc = "done"
          /\ reqs[r].sent = [kind |-> "messages", context |-> <<>>]

\* C8: once a step of the ingestion has failed, load_or_build ends raised, with no
\* chunks or vectors; after an embedding failure the cache file is as the call found
\* it; the application never serves and the corpus stays empty.
C8_FailureIsFatal ==
    /\ calls.failed # "none" =>
           /\ pc \in {"startup", "failed"}
           /\ chunks = <<>> /\ embeddings = <<>>
           /\ AllIdle
           /\ ing.kind = "call" =>
                  /\ ing.stage = "raised"
                  /\ ing.chunks = <<>> /\ ing.embeddings = <<>>
           /\ pc = "failed" => lastCall.kind = "raise"
    /\ calls.failed = "embed" => (calls.save = 0 /\ cacheFile = calls.file0)
    /\ pc = "serving" => lastCall.kind = "return"

\* the service failed on the second chunk, after the first was embedded, and the
\* startup has failed
C8_Witness ==
    /\ calls.failed = "embed" /\ calls.provider >= 2
    /\ pc = "failed"
    /\ lastCall = [kind |-> "raise", failure |-> "embed"]

\* C10: chunks and embeddings have the same length in every state; no request is
\* handled before the startup has completed; and the only steps that change chunks or
\* embeddings are the completion of the startup, before any request, and the end of
\* the process.
C10_CorpusReadOnly ==
    /\ [](Len(chunks) = Len(embeddings))
    /\ [](pc # "serving" => AllIdle)
    /\ [][ (chunks' # chunks \/ embeddings' # embeddings) =>
               \/ (pc = "startup" /\ pc' = "serving" /\ AllIdle)
               \/ pc' = "off" ]_vars

\* a non-empty corpus is being served: one request was cut by a disconnect, another
\* had its retrieval fail
C10_Witness ==
    /\ pc = "serving"
    /\ Len(chunks) >= 2 /\ Len(embeddings) = Len(chunks)
    /\ reqs["r1"].pc = "aborted"
    /\ reqs["r2"].retrieval = "failed"

=============================================================================
